---- MODULE Spec2Model ----
(***************************************************************************)
(* panic-persist: a panic message is written into a reserved RAM region    *)
(* (magic word, length word, payload), survives a warm reset, and is read  *)
(* back exactly once on a later boot.  Model of src/src/lib.rs.            *)
(*                                                                         *)
(* The region is modelled byte by byte: mem[a] is the byte at address      *)
(* _panic_dump_start + a.  Addresses at and above maxLen lie outside the   *)
(* region (other statics) and are kept in mem so that a stray write shows. *)
(***************************************************************************)
EXTENDS Integers, Sequences, FiniteSets, TLC

VARIABLES
    wordSize,    \* size_of::<usize>() of the build
    maxLen,      \* _panic_dump_end - _panic_dump_start
    custom,      \* cargo feature "custom-panic-handler"
    mem,         \* the bytes at _panic_dump_start + 0, 1, ...
    pc,          \* "run"; "panic", "panic_done": the built-in handler before and
                 \* after its writeln!; "report", "report_done": report_panic_info
    intEnabled,  \* interrupts enabled
    offset,      \* Ram.offset of the current writer
    msg,         \* history: all input bytes given to the most recent writer
    base,        \* history: the region when the most recent writer was made
    unread,      \* history: write_str was called and no reader since
    stamped,     \* history: write_str stored a header and no reader since
    resets,      \* history: resets since the last write_str call
    delivered,   \* history: messages returned since the last stamping write_str
    op,          \* history: the last operation
    pre,         \* history: region, offset and flags before the last operation
    acc,         \* history: what the last operation accessed
    result,      \* Option<&[u8]> of the last get_panic_message_bytes
    text         \* Option<&str> of the last get_panic_message_utf8

vars == <<wordSize, maxLen, custom, mem, pc, intEnabled, offset, msg, base,
          unread, stamped, resets, delivered, op, pre, acc, result, text>>

----------------------------------------------------------------------------
(* Bounds of the model *)

MaxCap == 2        \* largest payload capacity explored
MaxMsg == 3        \* largest total input given to one writer
MaxResets == 2     \* resets explored after the last write

(* Program constants *)

SENTINEL == 262974944      \* 0x0FACADE0
LEN_OFFSET == 4            \* start_ptr.offset(4)
DATA_OFFSET == 8           \* start_ptr.offset(8)
NEWLINE == 10              \* the byte writeln! ends the text with
CORTEX_M_WORD == 4         \* usize of the Cortex-M targets the handler is built for
WIDE_WORD == 2 * CORTEX_M_WORD   \* usize of a 64-bit target

Chars == {<<104>>, <<195, 169>>}   \* UTF-8 of 'h' and of U+00E9
GarbageByte == 256 - 1     \* power-on content of the payload area
OtherMagic == SENTINEL + 1 \* a magic word that is not the sentinel
Huge == 2 ^ 24             \* stands for every usize value of 2^24 and above

MemSize == 2 * WIDE_WORD + MaxCap + WIDE_WORD
Addrs == 0 .. (MemSize - 1)

Min(a, b) == IF a < b THEN a ELSE b

Take(s, n) == SubSeq(s, 1, n)

\* the values of a &str of exactly n bytes: whole characters only
RECURSIVE StrsOfLen(_)
StrsOfLen(n) ==
    IF n = 0 THEN {<<>>}
    ELSE UNION {{c \o t : t \in StrsOfLen(n - Len(c))} : c \in {d \in Chars : Len(d) <= n}}

StrsUpTo(n) == UNION {StrsOfLen(k) : k \in 0..n}

----------------------------------------------------------------------------
(* usize stores and loads, little endian, wordSize bytes wide *)

\* byte i (0-based) of the usize value v, v < 2^31
UsizeByte(v, i) == IF i < 4 THEN (v \div (256 ^ i)) % 256 ELSE 0

\* ptr.cast::<usize>().write_unaligned(v)
WriteUsize(m, addr, v) ==
    [a \in DOMAIN m |->
        IF a >= addr /\ a < addr + wordSize THEN UsizeByte(v, a - addr) ELSE m[a]]

\* does the loaded usize equal v (v < 2^31)
UsizeIs(m, addr, v) ==
    \A i \in 0..(wordSize - 1) : m[addr + i] = UsizeByte(v, i)

\* the loaded usize as a number; every value of 2^24 and above reads as Huge
UsizeVal(m, addr) ==
    IF \E i \in 3..(wordSize - 1) : m[addr + i] # 0
    THEN Huge
    ELSE m[addr] + 256 * m[addr + 1] + 65536 * m[addr + 2]

UsizeSpan(addr) == addr .. (addr + wordSize - 1)

----------------------------------------------------------------------------
(* The region *)

\* a capacity that forgets one header word
MaxLenStr_OneWord == maxLen - wordSize

\* max_len_str = max_len - size_of::<usize>() - size_of::<usize>()
MaxLenStr == maxLen - wordSize - wordSize

\* a reader that takes every non-zero magic word for a message
MagicPresent_NonZero(m) == ~UsizeIs(m, 0, 0)

\* the magic word the reader sees
MagicPresent(m) == UsizeIs(m, 0, SENTINEL)

\* the payload the header describes: len bytes from start_ptr.offset(8)
Slice(m, len) == [i \in 1..len |-> m[DATA_OFFSET + i - 1]]

NoAccess ==
    [magicAt |-> {}, lenAt |-> {}, dataAt |-> {}, copied |-> 0, inLen |-> 0,
     ret |-> "none"]

None == [some |-> FALSE, ptr |-> 0, bytes |-> <<>>]
Some(p, b) == [some |-> TRUE, ptr |-> p, bytes |-> b]

Snapshot == [mem |-> mem, offset |-> offset, unread |-> unread,
             stamped |-> stamped, delivered |-> delivered,
             intEnabled |-> intEnabled, pc |-> pc, op |-> op]

----------------------------------------------------------------------------
(* Ram::write_str *)

\* a full test that lets a writer at capacity through
WriterFull_Strict(off) == off > MaxLenStr

\* if self.offset >= max_len_str { return Ok(()) }
WriterFull(off) == off >= MaxLenStr

\* a copy length that is not clamped to the room left
StrLen_NoClamp(off, len) == len

\* let str_len = min(max_len_str - self.offset, len)
StrLen(off, len) == Min(MaxLenStr - off, len)

\* a writer that never stores the magic word
StampMagic_Skipped(m) == m

\* start_ptr.cast::<usize>().write_unaligned(0x0FACADE0)
StampMagic(m) == WriteUsize(m, 0, SENTINEL)

\* a copy that ignores the writer's offset
CopyDst_NoOffset(off) == DATA_OFFSET

\* the first byte core::ptr::copy stores to
CopyDst(off) == DATA_OFFSET + off

\* core::ptr::copy(data.as_ptr(), start_ptr.offset(8).offset(self.offset), str_len)
CopyStr(m, off, data, n) ==
    [a \in DOMAIN m |->
        IF a >= CopyDst(off) /\ a < CopyDst(off) + n
        THEN data[a - CopyDst(off) + 1]
        ELSE m[a]]

\* a writer that stops at "For now, skip writing the length..."
StoreLen_Skipped(m, off) == m

\* start_ptr.offset(4).cast::<usize>().write_unaligned(self.offset)
StoreLen(m, off) == WriteUsize(m, LEN_OFFSET, off)

\* the region after one write_str call that found room
WriteStrMem(m, off, s) ==
    StoreLen(CopyStr(StampMagic(m), off, s, StrLen(off, Len(s))),
             off + StrLen(off, Len(s)))

\* a writer that reports a text it had to cut as an error
WriteStrResult_ErrWhenCut(off, len) ==
    IF WriterFull(off) \/ len > MaxLenStr - off THEN "Err" ELSE "Ok"

\* what the call returns: Ok(()) from the early return and from the end; the
\* subtraction for max_len_str overflows on a region shorter than two words
WriteStrResult(off, len) ==
    IF maxLen < wordSize + wordSize THEN "overflow"
    ELSE IF WriterFull(off) THEN "Ok"
    ELSE "Ok"

WriteStrAccess(off, s) ==
    [magicAt |-> UsizeSpan(0),
     lenAt   |-> UsizeSpan(LEN_OFFSET),
     dataAt  |-> CopyDst(off) .. (CopyDst(off) + StrLen(off, Len(s)) - 1),
     copied  |-> StrLen(off, Len(s)),
     inLen   |-> Len(s),
     ret     |-> WriteStrResult(off, Len(s))]

\* region and offset after one write_str(s) call on a writer at offset off
AppendOnce(m, off, s) ==
    IF WriterFull(off)
    THEN [mem |-> m, offset |-> off]
    ELSE [mem |-> WriteStrMem(m, off, s), offset |-> off + StrLen(off, Len(s))]

\* one call of write_str(s) on the current writer
WriteStr(s) ==
    /\ IF WriterFull(offset)
       THEN /\ mem' = mem
            /\ offset' = offset
            /\ acc' = [NoAccess EXCEPT !.inLen = Len(s),
                                     !.ret = WriteStrResult(offset, Len(s))]
            /\ UNCHANGED <<stamped, delivered>>
       ELSE /\ mem' = WriteStrMem(mem, offset, s)
            /\ offset' = offset + StrLen(offset, Len(s))
            /\ acc' = WriteStrAccess(offset, s)
            /\ stamped' = TRUE
            /\ delivered' = 0
    /\ msg' = msg \o s
    /\ unread' = TRUE
    /\ resets' = 0
    /\ op' = "write_str"
    /\ pre' = Snapshot
    /\ UNCHANGED <<wordSize, maxLen, custom, intEnabled, base, result, text>>

\* writeln!(Ram { offset: 0 }, ...): core::fmt passes the text to write_str
\* piece by piece; this is a call that is not the last one
Fragment(s) ==
    /\ pc \in {"panic", "report"}
    /\ Len(msg) + Len(s) < MaxMsg
    /\ WriteStr(s)
    /\ pc' = pc

\* the last call of a writeln!: its text ends with the newline
LastFragment(s) ==
    /\ pc \in {"panic", "report"}
    /\ Len(msg) + Len(s) < MaxMsg
    /\ WriteStr(s \o <<NEWLINE>>)
    /\ pc' = IF pc = "panic" THEN "panic_done" ELSE "report_done"

----------------------------------------------------------------------------
(* get_panic_message_bytes *)

\* a reader that zeroes the whole header
ClearMagic_Header(m) == WriteUsize(WriteUsize(m, 0, 0), LEN_OFFSET, 0)

\* a reader that leaves the magic word in place
ClearMagic_Skipped(m) == m

\* start_ptr.cast::<usize>().write_unaligned(0x00000000)
ClearMagic(m) == WriteUsize(m, 0, 0)

\* the region after the call
GetBytesMem(m) == IF MagicPresent(m) THEN ClearMagic(m) ELSE m

\* let len = read_unaligned(start_ptr.offset(4).cast::<usize>()), after the clear
StoredLen(m) == UsizeVal(GetBytesMem(m), LEN_OFFSET)

\* a length check that is off by one
LenCorrupt_OffByOne(len) == len > MaxLenStr + 1

\* if len > max_len_str { return None }
LenCorrupt(len) == len > MaxLenStr

\* the value the call returns
GetBytesResult(m) ==
    IF ~MagicPresent(m) THEN None
    ELSE IF LenCorrupt(StoredLen(m)) THEN None
    ELSE Some(DATA_OFFSET, Slice(GetBytesMem(m), StoredLen(m)))

GetBytesAccess(m) ==
    [magicAt |-> UsizeSpan(0),
     lenAt   |-> IF MagicPresent(m) THEN UsizeSpan(LEN_OFFSET) ELSE {},
     dataAt  |-> IF GetBytesResult(m).some
                 THEN DATA_OFFSET .. (DATA_OFFSET + StoredLen(m) - 1)
                 ELSE {},
     copied  |-> 0,
     inLen   |-> 0,
     ret     |-> "none"]

\* what either reader does to the region and the history
Consume ==
    /\ mem' = GetBytesMem(mem)
    /\ result' = GetBytesResult(mem)
    /\ acc' = GetBytesAccess(mem)
    /\ unread' = FALSE
    /\ stamped' = FALSE
    /\ delivered' = IF GetBytesResult(mem).some THEN Min(delivered + 1, 2) ELSE delivered
    /\ pre' = Snapshot
    /\ UNCHANGED <<wordSize, maxLen, custom, pc, intEnabled, offset, msg, base,
                   resets>>

GetPanicMessageBytes ==
    /\ pc = "run"
    /\ Consume
    /\ text' = None
    /\ op' = "get_bytes"

----------------------------------------------------------------------------
(* get_panic_message_utf8 *)

IsCont(b) == b >= 128 /\ b <= 191

\* the number of bytes of the character starting at s[i], 0 if it is not
\* well formed or not complete (core::str::from_utf8)
CharWidth(s, i) ==
    LET b == s[i]
        n == Len(s) - i + 1
        c(k) == IsCont(s[i + k])
    IN  IF b < 128 THEN 1
        ELSE IF b >= 194 /\ b <= 223
             THEN IF n >= 2 /\ c(1) THEN 2 ELSE 0
        ELSE IF b = 224
             THEN IF n >= 3 /\ s[i + 1] >= 160 /\ s[i + 1] <= 191 /\ c(2) THEN 3 ELSE 0
        ELSE IF (b >= 225 /\ b <= 236) \/ b = 238 \/ b = 239
             THEN IF n >= 3 /\ c(1) /\ c(2) THEN 3 ELSE 0
        ELSE IF b = 237
             THEN IF n >= 3 /\ s[i + 1] >= 128 /\ s[i + 1] <= 159 /\ c(2) THEN 3 ELSE 0
        ELSE IF b = 240
             THEN IF n >= 4 /\ s[i + 1] >= 144 /\ s[i + 1] <= 191 /\ c(2) /\ c(3)
                  THEN 4 ELSE 0
        ELSE IF b >= 241 /\ b <= 243
             THEN IF n >= 4 /\ c(1) /\ c(2) /\ c(3) THEN 4 ELSE 0
        ELSE IF b = 244
             THEN IF n >= 4 /\ s[i + 1] >= 128 /\ s[i + 1] <= 143 /\ c(2) /\ c(3)
                  THEN 4 ELSE 0
        ELSE 0

\* Utf8Error::valid_up_to of from_utf8(s) scanning from index i (1-based);
\* Len(s) when s is valid
RECURSIVE ValidFrom(_, _)
ValidFrom(s, i) ==
    IF i > Len(s) THEN Len(s)
    ELSE IF CharWidth(s, i) = 0 THEN i - 1
    ELSE ValidFrom(s, i + CharWidth(s, i))

ValidUpTo(s) == ValidFrom(s, 1)

\* from_utf8(s) is Ok
FromUtf8Ok(s) == ValidUpTo(s) = Len(s)

\* an adapter that gives up on the first decoding error
Utf8Result_Strict(r) ==
    IF r.some /\ FromUtf8Ok(r.bytes) THEN Some(r.ptr, r.bytes) ELSE None

\* the match of get_panic_message_utf8 on the bytes the inner call returned
Utf8Result(r) ==
    IF ~r.some THEN None
    ELSE IF FromUtf8Ok(r.bytes) THEN Some(r.ptr, r.bytes)
    ELSE IF FromUtf8Ok(Take(r.bytes, ValidUpTo(r.bytes)))
         THEN Some(r.ptr, Take(r.bytes, ValidUpTo(r.bytes)))
         ELSE None

GetPanicMessageUtf8 ==
    /\ pc = "run"
    /\ Consume
    /\ text' = Utf8Result(GetBytesResult(mem))
    /\ op' = "get_utf8"

----------------------------------------------------------------------------
(* The panic handler, report_panic_info and resets *)

\* a handler that does not disable interrupts
InterruptsInHandler_Enabled == TRUE

\* cortex_m::interrupt::disable() on entry of the built-in handler
InterruptsInHandler == FALSE

\* a panic: the built-in handler starts, disables interrupts and makes the
\* writer Ram { offset: 0 }
Panic ==
    /\ pc = "run"
    /\ ~custom
    /\ pc' = "panic"
    /\ intEnabled' = InterruptsInHandler
    /\ offset' = 0
    /\ msg' = <<>>
    /\ base' = mem
    /\ op' = "panic"
    /\ pre' = Snapshot
    /\ acc' = NoAccess
    /\ UNCHANGED <<wordSize, maxLen, custom, mem, unread, stamped, resets,
                   delivered, result, text>>

\* cortex_m::peripheral::SCB::sys_reset() after writeln! returned; the
\* region keeps its content and the next boot runs with interrupts enabled
SysReset ==
    /\ pc = "panic_done"
    /\ pc' = "run"
    /\ intEnabled' = TRUE
    /\ offset' = 0
    /\ resets' = Min(resets + 1, MaxResets)
    /\ op' = "sys_reset"
    /\ pre' = Snapshot
    /\ acc' = NoAccess
    /\ UNCHANGED <<wordSize, maxLen, custom, mem, msg, base, unread, stamped,
                   delivered, result, text>>

\* report_panic_info is entered from a custom handler: Ram { offset: 0 }
ReportPanicInfo ==
    /\ pc = "run"
    /\ custom
    /\ pc' = "report"
    /\ offset' = 0
    /\ msg' = <<>>
    /\ base' = mem
    /\ op' = "report"
    /\ pre' = Snapshot
    /\ acc' = NoAccess
    /\ UNCHANGED <<wordSize, maxLen, custom, mem, intEnabled, unread, stamped,
                   resets, delivered, result, text>>

\* report_panic_info returns to its caller once writeln! is done
ReportReturn ==
    /\ pc = "report_done"
    /\ pc' = "run"
    /\ offset' = 0
    /\ op' = "report_return"
    /\ pre' = Snapshot
    /\ acc' = NoAccess
    /\ UNCHANGED <<wordSize, maxLen, custom, mem, intEnabled, msg, base, unread,
                   stamped, resets, delivered, result, text>>

\* a reset that no panic caused (reset pin, watchdog, a reset by the
\* program): the region is outside the sections startup initialises
WarmReset ==
    /\ pc = "run"
    /\ resets < MaxResets
    /\ resets' = resets + 1
    /\ intEnabled' = TRUE
    /\ op' = "warm_reset"
    /\ pre' = Snapshot
    /\ acc' = NoAccess
    /\ UNCHANGED <<wordSize, maxLen, custom, mem, pc, offset, msg, base,
                   unread, stamped, delivered, result, text>>

----------------------------------------------------------------------------
(* Initial states: power-on content of the region *)

\* the region at power-on: magic word mg, length word ln (-1: left as
\* garbage), garbage payload; zero above the region
PowerOn(len, mg, ln) ==
    LET raw == [a \in Addrs |-> IF a < len THEN GarbageByte ELSE 0]
        withLen == IF ln < 0 THEN raw ELSE WriteUsize(raw, LEN_OFFSET, ln)
    IN  WriteUsize(withLen, 0, mg)

\* builds of the word sizes in words over regions of the capacities in caps
InitWith(words, caps) ==
    /\ wordSize \in words
    /\ maxLen \in {2 * wordSize + c : c \in caps}
    /\ custom \in BOOLEAN
    /\ mem \in {PowerOn(maxLen, mg, ln) :
                   mg \in {0, SENTINEL, OtherMagic},
                   ln \in (-1)..(MaxLenStr + 1)}
    /\ pc = "run"
    /\ intEnabled = TRUE
    /\ offset = 0
    /\ msg = <<>>
    /\ base = mem
    /\ unread = FALSE
    /\ stamped = FALSE
    /\ resets = 0
    /\ delivered = 0
    /\ op = "boot"
    /\ pre = Snapshot
    /\ acc = NoAccess
    /\ result = None
    /\ text = None

InitFor(words) == InitWith(words, 0..MaxCap)

\* the handler's target: Cortex-M, usize of 4 bytes
Init == InitFor({CORTEX_M_WORD})

Next ==
    \/ \E s \in StrsUpTo(MaxMsg) : Fragment(s)
    \/ \E s \in StrsUpTo(MaxMsg) : LastFragment(s)
    \/ GetPanicMessageBytes
    \/ GetPanicMessageUtf8
    \/ Panic
    \/ SysReset
    \/ ReportPanicInfo
    \/ ReportReturn
    \/ WarmReset

Spec == Init /\ [][Next]_vars

\* the same program built for either word size
Init64 == InitFor({CORTEX_M_WORD, WIDE_WORD})

Spec64 == Init64 /\ [][Next]_vars

\* the built-in handler runs to its end: each statement is executed in turn
FairSpec ==
    /\ Spec
    /\ WF_vars(\E s \in StrsUpTo(MaxMsg) : LastFragment(s))
    /\ WF_vars(SysReset)

----------------------------------------------------------------------------
(* The layout and the capacity as the documentation states them *)

Capacity == maxLen - 2 * wordSize

ReaderOps == {"get_bytes", "get_utf8"}
ResetOps == {"sys_reset", "warm_reset"}

HeaderMagicIs(m, v) == UsizeIs(m, 0, v)
HeaderLen(m) == UsizeVal(m, wordSize)

\* what a reader is due after the most recent writer was given msg
Stored == Take(msg, Min(Capacity, Len(msg)))

----------------------------------------------------------------------------
(* C1: one-shot consumption.  Once a reader has returned a message, every
   later call of either reader returns no message until a writer appends
   again, also an immediate second call and calls after further resets. *)
C1_OneShot ==
    (op \in ReaderOps /\ pre.delivered >= 1) => (result = None /\ text = None)

C1_Witness ==
    /\ op = "get_utf8"
    /\ pre.op = "get_bytes"
    /\ pre.delivered = 1
    /\ Len(msg) >= 1
    /\ resets >= 1
    /\ result = None

(* C2: round trip.  For every message M with length(M) <= capacity that one
   fresh writer was given through one or more write_str calls, the next
   get_panic_message_bytes returns a view of exactly the bytes of M. *)
C2_RoundTrip ==
    (op = "get_bytes" /\ pre.unread /\ Len(msg) <= Capacity)
        => result = Some(DATA_OFFSET, msg)

C2_Witness ==
    /\ op = "get_bytes"
    /\ pre.unread
    /\ Len(msg) >= 2
    /\ Len(msg) <= Capacity
    /\ result.some
    /\ result.bytes = msg

(* C3 as claimed: for every capacity >= 0, capacity 0 included, a message M
   of capacity + K bytes, K > 0, written by one fresh writer is read back
   as a message of exactly the first capacity bytes of M. *)
C3_Truncation_AnyCapacity ==
    (op = "get_bytes" /\ pre.unread /\ Len(msg) > Capacity)
        => result = Some(DATA_OFFSET, Take(msg, Capacity))

(* C3 amended: the same truncation round trip for every capacity >= 1. *)
C3_Truncation ==
    (op = "get_bytes" /\ pre.unread /\ Capacity >= 1 /\ Len(msg) > Capacity)
        => result = Some(DATA_OFFSET, Take(msg, Capacity))

C3_Witness ==
    /\ op = "get_bytes"
    /\ pre.unread
    /\ Capacity >= 2
    /\ Len(msg) > Capacity
    /\ result.some
    /\ result.bytes = Take(msg, Capacity)

(* C4: bounds safety.  One write_str call copies at most min(capacity,
   input length) payload bytes, and every byte a writer stores (magic,
   length, payload) lies inside the region; nothing above it changes. *)
C4_BoundsSafety ==
    op = "write_str" =>
        /\ acc.copied <= Min(Capacity, acc.inLen)
        /\ (acc.magicAt \cup acc.lenAt \cup acc.dataAt) \subseteq 0..(maxLen - 1)
        /\ \A a \in Addrs : a >= maxLen => mem[a] = pre.mem[a]

C4_Witness ==
    /\ op = "write_str"
    /\ Capacity >= 1
    /\ acc.inLen > Capacity - pre.offset
    /\ acc.copied = Capacity - pre.offset
    /\ acc.copied >= 1
    /\ (maxLen - 1) \in acc.dataAt

(* C5: no-op at capacity.  A write_str call on a writer whose offset equals
   the capacity leaves payload, length field, magic field and the writer's
   offset unchanged, whatever the input. *)
C5_NoOpAtCapacity ==
    (op = "write_str" /\ pre.offset = Capacity)
        => (mem = pre.mem /\ offset = pre.offset)

C5_Witness ==
    /\ op = "write_str"
    /\ pre.op = "write_str"
    /\ Capacity >= 1
    /\ pre.offset = Capacity
    /\ acc.inLen >= 1
    /\ mem = pre.mem

(* C6: a corrupt length is rejected and consumed.  When the magic is the
   sentinel and the length field exceeds the capacity, the reader returns
   no message and leaves the magic zero. *)
C6_CorruptRejected ==
    (op \in ReaderOps /\ HeaderMagicIs(pre.mem, SENTINEL)
                      /\ HeaderLen(pre.mem) > Capacity)
        => (result = None /\ HeaderMagicIs(mem, 0))

C6_Witness ==
    /\ op = "get_bytes"
    /\ HeaderMagicIs(pre.mem, SENTINEL)
    /\ HeaderLen(pre.mem) = Capacity + 1
    /\ result = None
    /\ HeaderMagicIs(mem, 0)

(* C7: memory layout.  For a word size W of 4 or 8 bytes the magic is at
   bytes [0, W), the length at [W, 2W) and payload byte i at 2W + i; writer
   and reader access each field at exactly these places, so no two fields
   overlap. *)
C7_Layout ==
    (op \in ReaderOps \cup {"write_str"}) =>
        /\ acc.magicAt \in {{}, 0..(wordSize - 1)}
        /\ acc.lenAt \in {{}, wordSize..(2 * wordSize - 1)}
        /\ \A a \in acc.dataAt : a >= 2 * wordSize
        /\ acc.magicAt \cap acc.lenAt = {}
        /\ acc.lenAt \cap acc.dataAt = {}

(* C8: absent sentinel.  When the magic differs from the sentinel, whatever
   the length field and the payload hold, the reader returns no message and
   changes no byte of the region. *)
C8_AbsentSentinel ==
    (op \in ReaderOps /\ ~HeaderMagicIs(pre.mem, SENTINEL))
        => (result = None /\ mem = pre.mem)

C8_Witness ==
    /\ op = "get_bytes"
    /\ HeaderMagicIs(pre.mem, OtherMagic)
    /\ HeaderLen(pre.mem) <= Capacity
    /\ result = None
    /\ mem = pre.mem

(* C9: failure-capture ordering.  The built-in handler disables interrupts,
   then makes all its appends, then resets: every append of the handler runs
   with interrupts disabled, the reset is taken from the handler after an
   append, no append follows the reset within the handler run, and every
   run of the handler reaches the reset. *)
C9_OrderSafe ==
    /\ pc \in {"panic", "panic_done"} => ~intEnabled
    /\ (op = "write_str" /\ ~custom) =>
            (pre.pc = "panic" /\ ~pre.intEnabled /\ pre.op \in {"panic", "write_str"})
    /\ op = "sys_reset" =>
            (pre.pc = "panic_done" /\ ~pre.intEnabled /\ pre.op = "write_str")

C9_Ordering == []C9_OrderSafe /\ (pc = "panic" ~> op = "sys_reset")

C9_Witness ==
    /\ op = "sys_reset"
    /\ pre.op = "write_str"
    /\ ~pre.intEnabled
    /\ stamped
    /\ Len(msg) >= 2

(* C10: cross-reset delivery.  A message the writer stamped is returned by
   the first reader call after it, however many resets lie between; a reset
   changes no byte of the region; and a message is returned at most once. *)
C10_CrossReset ==
    /\ (op \in ReaderOps /\ pre.stamped) => result = Some(DATA_OFFSET, Stored)
    /\ op \in ResetOps => mem = pre.mem
    /\ delivered <= 1

C10_Witness ==
    /\ op = "get_bytes"
    /\ pre.stamped
    /\ pre.op = "warm_reset"
    /\ resets >= 2
    /\ ~custom
    /\ result = Some(DATA_OFFSET, Stored)
    /\ Len(Stored) >= 1

----------------------------------------------------------------------------
(* Well-formed UTF-8 as the Unicode standard tabulates it *)

IsTrail(b) == b >= 128 /\ b <= 191

WellFormedChar(c) ==
    \/ Len(c) = 1 /\ c[1] <= 127
    \/ Len(c) = 2 /\ c[1] >= 194 /\ c[1] <= 223 /\ IsTrail(c[2])
    \/ /\ Len(c) = 3
       /\ IsTrail(c[3])
       /\ \/ c[1] = 224 /\ c[2] >= 160 /\ c[2] <= 191
          \/ c[1] >= 225 /\ c[1] <= 236 /\ IsTrail(c[2])
          \/ c[1] = 237 /\ c[2] >= 128 /\ c[2] <= 159
          \/ c[1] >= 238 /\ c[1] <= 239 /\ IsTrail(c[2])
    \/ /\ Len(c) = 4
       /\ IsTrail(c[3])
       /\ IsTrail(c[4])
       /\ \/ c[1] = 240 /\ c[2] >= 144 /\ c[2] <= 191
          \/ c[1] >= 241 /\ c[1] <= 243 /\ IsTrail(c[2])
          \/ c[1] = 244 /\ c[2] >= 128 /\ c[2] <= 143

RECURSIVE IsText(_)
IsText(s) ==
    \/ s = <<>>
    \/ \E k \in 1..Min(4, Len(s)) :
          WellFormedChar(Take(s, k)) /\ IsText(SubSeq(s, k + 1, Len(s)))

\* the longest prefix of b that is text
LongestText(b) ==
    Take(b, CHOOSE n \in 0..Len(b) :
                /\ IsText(Take(b, n))
                /\ \A k \in (n + 1)..Len(b) : ~IsText(Take(b, k)))

(* C11: text truncation.  For every stored payload get_panic_message_utf8
   returns the whole payload when it is valid UTF-8 and otherwise exactly
   its longest valid prefix, while the raw bytes of the same record are the
   full truncated byte sequence. *)
C11_TextTruncation ==
    op = "get_utf8" =>
        /\ result.some => text = Some(result.ptr, LongestText(result.bytes))
        /\ ~result.some => text = None
        /\ pre.stamped => result = Some(DATA_OFFSET, Stored)

C11_Witness ==
    /\ op = "get_utf8"
    /\ pre.stamped
    /\ Len(msg) > Capacity
    /\ result.bytes = <<195>>
    /\ text = Some(DATA_OFFSET, <<>>)

(* C12: the writer never fails.  Every write_str call, for every input and
   every writer state, returns Ok: a text that does not fit is cut, and no
   error value and no fault (an overflow, a store outside the region) is
   produced. *)
C12_WriterNeverFails ==
    op = "write_str" =>
        /\ acc.ret = "Ok"
        /\ (acc.magicAt \cup acc.lenAt \cup acc.dataAt) \subseteq 0..(maxLen - 1)
        /\ offset >= pre.offset
        /\ offset <= Capacity

C12_Witness ==
    /\ op = "write_str"
    /\ pre.op = "write_str"
    /\ acc.inLen > Capacity - pre.offset
    /\ acc.ret = "Ok"

----------------------------------------------------------------------------
(* The documented example: a region of capacity 5 and the text "héllo" *)

Hello == <<104, 195, 169, 108, 108, 111>>
HelloCap == Len(Hello) - 1

IsPrefix(p, s) == Len(p) <= Len(s) /\ Take(s, Len(p)) = p

\* the pieces core::fmt may pass: substrings made of whole characters
HelloPieces ==
    {p \in {SubSeq(Hello, i, j) : i \in 1..(Len(Hello) + 1), j \in 0..Len(Hello)} :
        IsText(p)}

\* a write_str call of the writeln! of this text that is not the last one
HelloFragment(s) ==
    /\ pc \in {"panic", "report"}
    /\ IsPrefix(msg \o s, Hello)
    /\ WriteStr(s)
    /\ pc' = pc

\* the last call: the rest of the text and the newline
HelloLast(s) ==
    /\ pc \in {"panic", "report"}
    /\ msg \o s = Hello
    /\ WriteStr(s \o <<NEWLINE>>)
    /\ pc' = IF pc = "panic" THEN "panic_done" ELSE "report_done"

InitHello == InitWith({CORTEX_M_WORD}, {HelloCap})

NextHello ==
    \/ \E s \in HelloPieces : HelloFragment(s)
    \/ \E s \in HelloPieces : HelloLast(s)
    \/ GetPanicMessageBytes
    \/ GetPanicMessageUtf8
    \/ Panic
    \/ SysReset
    \/ ReportPanicInfo
    \/ ReportReturn
    \/ WarmReset

SpecHello == InitHello /\ [][NextHello]_vars

(* C13 as claimed: with capacity 5 the stored bytes of "héllo" are cut
   inside a character and the text read returns "h" or a shorter prefix. *)
C13_Hello_MidCharacter ==
    (op = "get_utf8" /\ pre.stamped) =>
        /\ ~IsText(result.bytes)
        /\ text.some
        /\ IsPrefix(text.bytes, <<104>>)

(* C13 amended: with capacity 5 the stored bytes of "héllo" are its
   first 5 bytes, "héll", which end on a character boundary, and the
   text read returns all 5 of them. *)
C13_Hello ==
    (op = "get_utf8" /\ pre.stamped) =>
        /\ Capacity = 5
        /\ result = Some(DATA_OFFSET, Take(Hello, HelloCap))
        /\ IsText(result.bytes)
        /\ text = Some(DATA_OFFSET, Take(Hello, HelloCap))

C13_Witness ==
    /\ op = "get_utf8"
    /\ pre.stamped
    /\ Take(msg, Len(Hello)) = Hello
    /\ text.some
    /\ text.bytes = <<104, 195, 169, 108, 108>>

(* C14: header invariant after append.  After every write_str call made
   while the writer's offset was below the capacity, the magic is the
   sentinel and the length field equals the writer's offset, which is
   min(capacity, bytes given to this writer so far); so the length never
   exceeds the capacity and never decreases within one writer. *)
C14_HeaderAfterAppend ==
    /\ (op = "write_str" /\ pre.offset < Capacity) =>
            /\ HeaderMagicIs(mem, SENTINEL)
            /\ HeaderLen(mem) = offset
            /\ offset = Min(Capacity, Len(msg))
            /\ HeaderLen(mem) <= Capacity
    /\ (op = "write_str" /\ pre.op = "write_str") =>
            /\ offset >= pre.offset
            /\ HeaderLen(mem) >= HeaderLen(pre.mem)

C14_Witness ==
    /\ op = "write_str"
    /\ pre.op = "write_str"
    /\ pre.offset >= 1
    /\ pre.offset < Capacity
    /\ acc.inLen >= 1
    /\ HeaderLen(mem) = Capacity
    /\ Len(msg) > Capacity

(* C15: the reader's view stays in bounds.  For every content of the region
   get_panic_message_bytes ends with no message or with a view of exactly
   `length` bytes, length <= capacity, that starts right after the header
   and ends at or before the end of the region. *)
C15_ViewInBounds ==
    (op \in ReaderOps /\ result.some) =>
        /\ result.ptr = 2 * wordSize
        /\ Len(result.bytes) = HeaderLen(pre.mem)
        /\ Len(result.bytes) <= Capacity
        /\ result.ptr + Len(result.bytes) <= maxLen
        /\ acc.dataAt = result.ptr .. (result.ptr + Len(result.bytes) - 1)
        /\ \A i \in 1..Len(result.bytes) :
              result.bytes[i] = pre.mem[2 * wordSize + i - 1]

C15_Witness ==
    /\ op = "get_bytes"
    /\ pre.op = "boot"
    /\ result.some
    /\ Capacity >= 1
    /\ Len(result.bytes) = Capacity
    /\ result.bytes[Capacity] = GarbageByte
    /\ result.ptr + Len(result.bytes) = maxLen

(* C16: fragmented append equals single append.  A fresh writer that is
   given a text in several write_str calls leaves magic, length, payload and
   its offset as a fresh writer given the concatenation in one call does,
   from the same region content. *)
C16_FragmentedEqualsSingle ==
    op = "write_str" =>
        [mem |-> mem, offset |-> offset] = AppendOnce(base, 0, msg)

C16_Witness ==
    /\ op = "write_str"
    /\ pre.op = "write_str"
    /\ pre.offset >= 1
    /\ pre.offset < Capacity
    /\ acc.inLen > Capacity - pre.offset
    /\ mem # pre.mem
    /\ [mem |-> mem, offset |-> offset] = AppendOnce(base, 0, msg)

\* region contents a new writer may find: power-on garbage, what the most
\* recent writer found, and what the reader found
PriorContents ==
    {PowerOn(maxLen, mg, ln) :
        mg \in {0, SENTINEL, OtherMagic}, ln \in (-1)..(Capacity + 1)}
    \cup {base, pre.mem}

(* C17: a new writer replaces what the region held.  For a fresh writer
   given a non-empty message M over a region of capacity > 0, the next
   get_panic_message_bytes returns the same message whatever the region held
   before (garbage, an unread or a consumed earlier message of any length):
   the stored part of M and no byte of the earlier content. *)
C17_WriterReplaces ==
    (op = "get_bytes" /\ pre.unread /\ Capacity >= 1) =>
        /\ result = Some(DATA_OFFSET, Stored)
        /\ \A m0 \in PriorContents :
              GetBytesResult(AppendOnce(m0, 0, msg).mem) = result

C17_Witness ==
    /\ op = "get_bytes"
    /\ pre.unread
    /\ HeaderMagicIs(base, SENTINEL)
    /\ HeaderLen(base) <= Capacity
    /\ HeaderLen(base) > Len(Stored)
    /\ result = Some(DATA_OFFSET, Stored)

\* the bytes a returned view shows now
ViewNow(r) == [i \in 1..Len(r.bytes) |-> mem[r.ptr + i - 1]]

(* C18: reader frame.  get_panic_message_bytes never changes the length
   field or a payload byte; its only change to the region is the magic going
   from the sentinel to zero, so a returned view keeps showing the bytes it
   was returned with until a writer is called again. *)
C18_ReaderFrame ==
    /\ op \in ReaderOps =>
          /\ \A a \in Addrs : a >= wordSize => mem[a] = pre.mem[a]
          /\ mem # pre.mem =>
                (HeaderMagicIs(pre.mem, SENTINEL) /\ HeaderMagicIs(mem, 0))
    /\ (result.some /\ ~unread) => ViewNow(result) = result.bytes

C18_Witness ==
    /\ op = "get_bytes"
    /\ result.some
    /\ Len(result.bytes) >= 2
    /\ mem # pre.mem
    /\ HeaderLen(mem) = Len(result.bytes)
    /\ ViewNow(result) = Stored

----------------------------------------------------------------------------
(* A reset that cuts a write_str call between two of its stores *)

\* what a cut call leaves behind and how the next boot starts
TornReset(s, m, copied) ==
    /\ pc \in {"panic", "report"}
    /\ Len(msg) + Len(s) <= MaxMsg
    /\ ~WriterFull(offset)
    /\ mem' = m
    /\ acc' = [WriteStrAccess(offset, s) EXCEPT
                  !.lenAt = {},
                  !.dataAt = IF copied THEN @ ELSE {},
                  !.copied = IF copied THEN @ ELSE 0,
                  !.ret = "none"]
    /\ msg' = msg \o s
    /\ op' = IF op \in {"panic", "report"} THEN "torn_first" ELSE "torn_later"
    /\ pc' = "run"
    /\ intEnabled' = TRUE
    /\ offset' = 0
    /\ unread' = TRUE
    /\ stamped' = FALSE
    /\ delivered' = 0
    /\ resets' = 1
    /\ pre' = Snapshot
    /\ UNCHANGED <<wordSize, maxLen, custom, base, result, text>>

\* the reset comes after the magic store, before the copy
TornAfterMagic(s) == TornReset(s, StampMagic(mem), FALSE)

\* the reset comes after the copy, before the length store
TornAfterCopy(s) ==
    TornReset(s, CopyStr(StampMagic(mem), offset, s, StrLen(offset, Len(s))), TRUE)

\* the texts of a write_str call: a piece, or a last piece with its newline
CallTexts == StrsUpTo(MaxMsg) \cup {s \o <<NEWLINE>> : s \in StrsUpTo(MaxMsg)}

NextTorn ==
    \/ Next
    \/ \E s \in CallTexts : TornAfterMagic(s)
    \/ \E s \in CallTexts : TornAfterCopy(s)

SpecTorn == Init /\ [][NextTorn]_vars

(* C19: an interrupted append is never mis-delivered.  When a reset cuts
   the first write_str call of a fresh writer between two of its stores, the
   next boot's get_panic_message_bytes returns no message or a prefix of the
   text of that call, whatever the region held before. *)
C19_TornNeverMisdelivered ==
    (op = "get_bytes" /\ pre.op = "torn_first") =>
        (result = None \/ IsPrefix(result.bytes, msg))

====
